---- MODULE Spec2Model ----
(***************************************************************************)
(* Model of the memory-throughput benchmark (src/src/main.rs) and of the   *)
(* byte formatter (src/src/fmtbytes.rs).                                   *)
(*                                                                         *)
(* The coordinator is the thread running memcpy_test / memset_test; the    *)
(* workers are the scoped threads it spawns, one per chunk.  Instant::now()*)
(* reads a monotonic clock that advances on every reading.                 *)
(***************************************************************************)
EXTENDS Integers, Sequences, FiniteSets, TLC

\* ---------------------------------------------------------------- bounds
MaxSize == 4
MaxThreads == 2
MaxRepetitions == 2
MaxWarmups == 3

\* ------------------------------------------------------ program constants
SRC_INIT == 190      \* 0xBE
DST_INIT == 239      \* 0xEF
FILL == 254          \* 0xFE

VARIABLES
    args,       \* Cli: command, size, threads, repetitions, warmups
    params,     \* arguments of memcpy_test / memset_test
    pc,         \* position of the coordinator
    i,          \* loop index of the trial
    start,      \* local `start` of the loop body (0: not yet assigned)
    end,        \* local `end` of the loop body (0: not yet assigned)
    t_coord,    \* the instant the coordinator read right after latch.wait()
    latch,      \* remaining count of the trial's latch (-1: no latch)
    arrivals,   \* number of count_down calls made on the trial's latch
    rest,       \* chunks the spawn loop has not yet consumed
    workers,    \* the Vec `threads` of the scope: one record per spawned worker
    joined,     \* number of workers the coordinator has joined
    src, dst,   \* buffers of memcpy_test
    buf,        \* buffer of memset_test
    now,        \* the monotonic clock
    t_begin,    \* the first instant read in the current iteration of the loop
    emitted,    \* trial indices whose throughput has been printed
    bytes,      \* the value handed to the formatter
    out         \* what the formatter rendered

vars == <<args, params, pc, i, start, end, t_coord, latch, arrivals, rest,
          workers, joined, src, dst, buf, now, emitted, bytes, out, t_begin>>

runvars == <<args, params, pc, i, start, end, t_coord, latch, arrivals, rest,
             workers, joined, src, dst, buf, now, emitted, t_begin>>

\* ---------------------------------------------------------------- helpers
Min(a, b) == IF a <= b THEN a ELSE b
Max(a, b) == IF a >= b THEN a ELSE b

\* a chunk size that is never 0
DivCeilAtLeastOne(a, b) == IF a = 0 THEN 1 ELSE (a + b - 1) \div b

\* a chunk size rounded down
DivFloor(a, b) == a \div b

\* usize::div_ceil
DivCeil(a, b) == (a + b - 1) \div b

\* Vec::resize(size, value) on an empty vector
Resize(n, v) == [k \in 1..n |-> v]

NoChunk == [off |-> 0, len |-> 0]

\* slice::chunks_exact(chunk_size): full chunks only, the remainder is left out
RECURSIVE ChunksExact(_, _, _)
ChunksExact(off, len, chunk_size) ==
    IF len < chunk_size THEN <<>>
    ELSE <<[off |-> off, len |-> chunk_size]>>
            \o ChunksExact(off + chunk_size, len - chunk_size, chunk_size)

\* slice::rchunks(chunk_size) taken in offset order: the remainder comes first
RECURSIVE ChunksRemainderFirst(_, _, _)
ChunksRemainderFirst(off, len, chunk_size) ==
    IF len = 0 THEN <<>>
    ELSE LET n == IF len % chunk_size = 0 THEN chunk_size ELSE len % chunk_size
         IN  <<[off |-> off, len |-> n]>>
                \o ChunksRemainderFirst(off + n, len - n, chunk_size)

\* chunks of a single byte each, whatever chunk_size says
RECURSIVE ChunksOfOne(_, _, _)
ChunksOfOne(off, len, chunk_size) ==
    IF len = 0 THEN <<>>
    ELSE <<[off |-> off, len |-> 1]>> \o ChunksOfOne(off + 1, len - 1, chunk_size)

\* slice::chunks(chunk_size) / chunks_mut(chunk_size) over a slice of `len`
\* bytes that starts at `off`: full chunks, then the remainder if any.
RECURSIVE Chunks(_, _, _)
Chunks(off, len, chunk_size) ==
    IF len = 0 THEN <<>>
    ELSE LET n == Min(chunk_size, len)
         IN  <<[off |-> off, len |-> n]>> \o Chunks(off + n, len - n, chunk_size)

\* a zip that walks its second side from the back
ZipReversed(a, b) ==
    [k \in 1..Min(Len(a), Len(b)) |-> [src |-> a[k], dst |-> b[Len(b) + 1 - k]]]

\* Iterator::zip: stops with the shorter side
Zip(a, b) == [k \in 1..Min(Len(a), Len(b)) |-> [src |-> a[k], dst |-> b[k]]]

\* a copy that stops one byte short of the chunk's end
CopyChunkShort(d, s, c) ==
    [k \in 1..Len(d) |->
        IF k > c.dst.off /\ k < c.dst.off + c.dst.len
        THEN s[c.src.off + (k - c.dst.off)] ELSE d[k]]

\* a copy that runs one byte past the chunk's end
CopyChunkPast(d, s, c) ==
    [k \in 1..Len(d) |->
        IF k > c.dst.off /\ k <= c.dst.off + c.dst.len + 1
        THEN s[c.src.off + (k - c.dst.off)] ELSE d[k]]

\* dst_chunk.copy_from_slice(src_chunk) seen on the whole buffers
CopyChunk(d, s, c) ==
    [k \in 1..Len(d) |->
        IF k > c.dst.off /\ k <= c.dst.off + c.dst.len
        THEN s[c.src.off + (k - c.dst.off)] ELSE d[k]]

\* b.fill(0xFE) seen on the whole buffer
FillChunk(b, c) ==
    [k \in 1..Len(b) |->
        IF k > c.dst.off /\ k <= c.dst.off + c.dst.len THEN FILL ELSE b[k]]

Whole(n) == [src |-> [off |-> 0, len |-> n], dst |-> [off |-> 0, len |-> n]]

\* main passing `args.repetitions` alone
RepetitionsOnly(a) == a.repetitions

\* `args.repetitions + args.warmups` passed by main as `repetitions`
TotalTrials(a) == a.repetitions + a.warmups

\* `if i >= warmups`
Reported(idx, w) == idx >= w

\* a clock that runs backwards
TickBack(t) == t - 1

\* Instant::now(): the clock is monotonic and has moved on at the next reading
Tick(t) == t + 1

\* a branch that takes only threads = 0 as single-threaded
SingleThreadedBelowOne(threads) == threads < 1

\* `if threads <= 1`
SingleThreaded(threads) == threads <= 1

\* ------------------------------------------------------------------- Init
Init ==
    /\ args \in [command : {"Memcpy", "Memset"},
                 size : 0..MaxSize,
                 threads : 0..MaxThreads,
                 repetitions : 0..MaxRepetitions,
                 warmups : 0..MaxWarmups]
    /\ params = [size |-> 0, threads |-> 0, repetitions |-> 0, warmups |-> 0]
    /\ pc = "main"
    /\ i = 0
    /\ start = 0 /\ end = 0 /\ t_coord = 0
    /\ latch = -1 /\ arrivals = 0
    /\ rest = <<>> /\ workers = <<>> /\ joined = 0
    /\ src = <<>> /\ dst = <<>> /\ buf = <<>>
    /\ now = 1 /\ t_begin = 0
    /\ emitted = <<>>
    /\ bytes = [int |-> <<>>, frac |-> <<0, 0>>]
    /\ out = [unit |-> "", whole |-> <<>>, cents |-> 0]

\* ------------------------------------------------------------ coordinator
\* main → memcpy_test: allocate and touch both buffers
MainMemcpy ==
    /\ pc = "main" /\ args.command = "Memcpy"
    /\ params' = [size |-> args.size, threads |-> args.threads,
                  repetitions |-> TotalTrials(args), warmups |-> args.warmups]
    /\ src' = Resize(args.size, SRC_INIT)
    /\ dst' = Resize(args.size, DST_INIT)
    /\ pc' = "for"
    /\ UNCHANGED <<args, i, start, end, t_coord, latch, arrivals, rest, workers,
                   joined, buf, now, emitted, bytes, out, t_begin>>

\* main → memset_test: allocate and touch the buffer
MainMemset ==
    /\ pc = "main" /\ args.command = "Memset"
    /\ params' = [size |-> args.size, threads |-> args.threads,
                  repetitions |-> TotalTrials(args), warmups |-> args.warmups]
    /\ buf' = Resize(args.size, SRC_INIT)
    /\ pc' = "for"
    /\ UNCHANGED <<args, i, start, end, t_coord, latch, arrivals, rest, workers,
                   joined, src, dst, now, emitted, bytes, out, t_begin>>

\* `for i in 0..repetitions { let mut start = Instant::now(); let end; if threads <= 1`
ForLoop ==
    /\ pc = "for"
    /\ IF i < params.repetitions
       THEN /\ start' = now
            /\ t_begin' = now
            /\ now' = Tick(now)
            /\ pc' = IF SingleThreaded(params.threads) THEN "single" ELSE "scope"
       ELSE /\ pc' = "done"
            /\ UNCHANGED <<start, now, t_begin>>
    /\ UNCHANGED <<args, params, i, end, t_coord, latch, arrivals, rest, workers,
                   joined, src, dst, buf, emitted, bytes, out>>

\* threads <= 1, memcpy: dst.copy_from_slice(src); end = Instant::now()
SingleCopy ==
    /\ pc = "single" /\ args.command = "Memcpy"
    /\ dst' = CopyChunk(dst, src, Whole(Len(src)))
    /\ end' = now
    /\ now' = Tick(now)
    /\ pc' = "report"
    /\ UNCHANGED <<args, params, i, start, t_coord, latch, arrivals, rest, workers,
                   joined, src, buf, emitted, bytes, out, t_begin>>

\* threads <= 1, memset: buf.fill(0xFE); end = Instant::now()
SingleFill ==
    /\ pc = "single" /\ args.command = "Memset"
    /\ buf' = FillChunk(buf, Whole(Len(buf)))
    /\ end' = now
    /\ now' = Tick(now)
    /\ pc' = "report"
    /\ UNCHANGED <<args, params, i, start, t_coord, latch, arrivals, rest, workers,
                   joined, src, dst, emitted, bytes, out, t_begin>>

\* `if i >= warmups { let dur = end - start; print ... }`, then the next iteration;
\* the locals of the loop body go out of scope.
Report ==
    /\ pc = "report"
    /\ emitted' = IF Reported(i, params.warmups) THEN Append(emitted, i) ELSE emitted
    /\ i' = i + 1
    /\ pc' = "for"
    /\ start' = 0 /\ end' = 0 /\ t_coord' = 0
    /\ latch' = -1 /\ arrivals' = 0
    /\ workers' = <<>> /\ joined' = 0
    /\ UNCHANGED <<args, params, rest, src, dst, buf, now, bytes, out, t_begin>>

\* ------------------------------------------------- multi-threaded trials
\* a latch constructed for the workers alone
LatchNewWorkersOnly(count) == count - 1

\* latches::sync::Latch::new(count)
LatchNew(count) == count

\* Latch::count_down: decrement unless the count is already 0
CountDown(l) == IF l > 0 THEN l - 1 ELSE l

\* a wait that lets its caller through one arrival early
ReleasedOneEarly(l) == l <= 1

\* Latch::wait returns once the count is 0
Released(l) == l = 0

\* debug_assert!(chunk_size * num_threads >= size)
DebugAssert(chunk_size, num_threads, sz) == chunk_size * num_threads >= sz

Worker(c) == [pc |-> "count_down", src |-> c.src, dst |-> c.dst, tstart |-> 0, tend |-> 0]

\* memcpy_test, threads > 1: create the latch, enter the scope, compute chunk_size and
\* build the zipped chunk iterators; chunks(0) panics.
ScopeMemcpy ==
    /\ pc = "scope" /\ args.command = "Memcpy"
    /\ LET num_threads == params.threads
           chunk_size == DivCeil(params.size, num_threads)
       IN  /\ latch' = LatchNew(num_threads + 1)
           /\ IF ~DebugAssert(chunk_size, num_threads, params.size) \/ chunk_size = 0
              THEN pc' = "panicked" /\ rest' = <<>>
              ELSE /\ pc' = "spawn"
                   /\ rest' = Zip(Chunks(0, Len(src), chunk_size),
                                  Chunks(0, Len(dst), chunk_size))
    /\ arrivals' = 0 /\ workers' = <<>> /\ joined' = 0
    /\ UNCHANGED <<args, params, i, start, end, t_coord, src, dst, buf, now,
                   emitted, bytes, out, t_begin>>

\* memset_test, threads > 1: the same over buf.chunks_mut(chunk_size)
ScopeMemset ==
    /\ pc = "scope" /\ args.command = "Memset"
    /\ LET num_threads == params.threads
           chunk_size == DivCeil(params.size, num_threads)
       IN  /\ latch' = LatchNew(num_threads + 1)
           /\ IF ~DebugAssert(chunk_size, num_threads, params.size) \/ chunk_size = 0
              THEN pc' = "panicked" /\ rest' = <<>>
              ELSE /\ pc' = "spawn"
                   /\ rest' = LET cs == Chunks(0, Len(buf), chunk_size)
                              IN  [k \in 1..Len(cs) |-> [src |-> NoChunk, dst |-> cs[k]]]
    /\ arrivals' = 0 /\ workers' = <<>> /\ joined' = 0
    /\ UNCHANGED <<args, params, i, start, end, t_coord, src, dst, buf, now,
                   emitted, bytes, out, t_begin>>

\* one iteration of the spawn loop: threads.push(s.spawn(...))
Spawn ==
    /\ pc = "spawn" /\ rest # <<>>
    /\ workers' = Append(workers, Worker(Head(rest)))
    /\ rest' = Tail(rest)
    /\ UNCHANGED <<args, params, pc, i, start, end, t_coord, latch, arrivals,
                   joined, src, dst, buf, now, emitted, bytes, out, t_begin>>

\* the coordinator's latch.count_down() after the spawn loop
CoordCountDown ==
    /\ pc = "spawn" /\ rest = <<>>
    /\ latch' = CountDown(latch)
    /\ arrivals' = arrivals + 1
    /\ pc' = "wait"
    /\ UNCHANGED <<args, params, i, start, end, t_coord, rest, workers, joined,
                   src, dst, buf, now, emitted, bytes, out, t_begin>>

\* the coordinator's latch.wait(); start = Instant::now(); let mut end = start
CoordWait ==
    /\ pc = "wait" /\ Released(latch)
    /\ start' = now /\ t_coord' = now /\ end' = now
    /\ now' = Tick(now)
    /\ pc' = "join"
    /\ UNCHANGED <<args, params, i, latch, arrivals, rest, workers, joined,
                   src, dst, buf, emitted, bytes, out, t_begin>>

\* memcpy_test: start = start.min(tstart)
JoinStartMemcpy(s, tstart) == Min(s, tstart)

\* a fill that folds the start like the copy does
JoinStartMin(s, tstart) == Min(s, tstart)

\* memset_test: start = start.max(tstart)
JoinStartMemset(s, tstart) == Max(s, tstart)

\* a join that returns while the thread is still running
FinishedOrRunning(t) == TRUE

\* JoinHandle::join returns once the thread has finished
Finished(t) == t.pc \in {"returned", "panicked"}

\* memcpy_test: let (tstart, tend) = t.join().unwrap(); fold into start and end
JoinMemcpy ==
    /\ pc = "join" /\ args.command = "Memcpy"
    /\ joined < Len(workers)
    /\ LET t == workers[joined + 1]
       IN  /\ Finished(t)
           /\ IF t.pc = "panicked"
              THEN \* t.join().unwrap() on a worker that panicked
                   /\ pc' = "panicked"
                   /\ UNCHANGED <<start, end>>
              ELSE /\ start' = JoinStartMemcpy(start, t.tstart)
                   /\ end' = Max(end, t.tend)
                   /\ UNCHANGED pc
    /\ joined' = joined + 1
    /\ UNCHANGED <<args, params, i, t_coord, latch, arrivals, rest, workers,
                   src, dst, buf, now, emitted, bytes, out, t_begin>>

\* memset_test: the same fold with start.max(tstart)
JoinMemset ==
    /\ pc = "join" /\ args.command = "Memset"
    /\ joined < Len(workers)
    /\ LET t == workers[joined + 1]
       IN  /\ Finished(t)
           /\ IF t.pc = "panicked"
              THEN \* t.join().unwrap() on a worker that panicked
                   /\ pc' = "panicked"
                   /\ UNCHANGED <<start, end>>
              ELSE /\ start' = JoinStartMemset(start, t.tstart)
                   /\ end' = Max(end, t.tend)
                   /\ UNCHANGED pc
    /\ joined' = joined + 1
    /\ UNCHANGED <<args, params, i, t_coord, latch, arrivals, rest, workers,
                   src, dst, buf, now, emitted, bytes, out, t_begin>>

\* memcpy_test: the scope returns the folded `end`, which becomes the trial's end
ScopeExitMemcpy ==
    /\ pc = "join" /\ args.command = "Memcpy"
    /\ joined = Len(workers)
    /\ pc' = "report"
    /\ UNCHANGED <<args, params, i, start, end, t_coord, latch, arrivals, rest,
                   workers, joined, src, dst, buf, now, emitted, bytes, out, t_begin>>

\* memset_test: the scope's value is dropped; end = Instant::now() after the scope
ScopeExitMemset ==
    /\ pc = "join" /\ args.command = "Memset"
    /\ joined = Len(workers)
    /\ end' = now
    /\ now' = Tick(now)
    /\ pc' = "report"
    /\ UNCHANGED <<args, params, i, start, t_coord, latch, arrivals, rest,
                   workers, joined, src, dst, buf, emitted, bytes, out, t_begin>>

\* ----------------------------------------------------------------- workers
\* latch.count_down()
WorkerCountDown(w) ==
    /\ workers[w].pc = "count_down"
    /\ latch' = CountDown(latch)
    /\ arrivals' = arrivals + 1
    /\ workers' = [workers EXCEPT ![w].pc = "wait"]
    /\ UNCHANGED <<args, params, pc, i, start, end, t_coord, rest, joined,
                   src, dst, buf, now, emitted, bytes, out, t_begin>>

\* latch.wait(); let start = Instant::now()
\* (once the count is 0 it stays 0, so the return of wait and the reading of the
\* clock that follows it are one step)
WorkerWait(w) ==
    /\ workers[w].pc = "wait"
    /\ Released(latch)
    /\ workers' = [workers EXCEPT ![w].pc = "op", ![w].tstart = now]
    /\ now' = Tick(now)
    /\ UNCHANGED <<args, params, pc, i, start, end, t_coord, latch, arrivals, rest,
                   joined, src, dst, buf, emitted, bytes, out, t_begin>>

\* dst.copy_from_slice(src); (start, Instant::now())
\* (the copy touches only the worker's own chunks, so it and the reading of the
\* clock that follows it are one step)
WorkerCopy(w) ==
    /\ workers[w].pc = "op" /\ args.command = "Memcpy"
    /\ IF workers[w].src.len = workers[w].dst.len
       THEN /\ dst' = CopyChunk(dst, src, workers[w])
            /\ workers' = [workers EXCEPT ![w].pc = "returned", ![w].tend = now]
            /\ now' = Tick(now)
       ELSE \* copy_from_slice panics when the two slices differ in length
            /\ workers' = [workers EXCEPT ![w].pc = "panicked"]
            /\ UNCHANGED <<dst, now>>
    /\ UNCHANGED <<args, params, pc, i, start, end, t_coord, latch, arrivals, rest,
                   joined, src, buf, emitted, bytes, out, t_begin>>

\* b.fill(0xFE); (start, Instant::now())
WorkerFill(w) ==
    /\ workers[w].pc = "op" /\ args.command = "Memset"
    /\ buf' = FillChunk(buf, workers[w])
    /\ workers' = [workers EXCEPT ![w].pc = "returned", ![w].tend = now]
    /\ now' = Tick(now)
    /\ UNCHANGED <<args, params, pc, i, start, end, t_coord, latch, arrivals, rest,
                   joined, src, dst, emitted, bytes, out, t_begin>>

Next ==
    \/ MainMemcpy
    \/ MainMemset
    \/ ForLoop
    \/ SingleCopy
    \/ SingleFill
    \/ ScopeMemcpy
    \/ ScopeMemset
    \/ Spawn
    \/ CoordCountDown
    \/ CoordWait
    \/ JoinMemcpy
    \/ JoinMemset
    \/ ScopeExitMemcpy
    \/ ScopeExitMemset
    \/ Report
    \/ \E w \in 1..Len(workers) : WorkerCountDown(w)
    \/ \E w \in 1..Len(workers) : WorkerWait(w)
    \/ \E w \in 1..Len(workers) : WorkerCopy(w)
    \/ \E w \in 1..Len(workers) : WorkerFill(w)

Spec == Init /\ [][Next]_vars

\* -------------------------------------------------------------- fmtbytes
\* A non-negative finite value of Bytes is written in base 1000: `int` holds the
\* three-digit groups of its integer part, most significant first and without
\* leading zero groups, `frac` the groups after the decimal point.
MaxGroups == 6
GroupValues == {0, 5, 512, 995}
FracValues == {<<0, 0>>, <<5, 0>>, <<602, 848>>, <<999, 999>>}

\* integer parts of n groups
IntParts(n) == {h \in [1..n -> GroupValues] : h = <<>> \/ h[1] # 0}

\* the value of the repository's test and the two other documented ones
Examples == {[int |-> <<13, 980, 987, 619>>, frac |-> <<602, 848>>],
             [int |-> <<512>>, frac |-> <<0, 0>>],
             [int |-> <<2, 500, 0>>, frac |-> <<0, 0>>]}

FmtInputs(n) ==
    {[int |-> g, frac |-> f] : g \in IntParts(n), f \in FracValues}
        \cup {e \in Examples : Len(e.int) = n}

NotRendered == [unit |-> "", whole |-> <<>>, cents |-> 0]

\* `bytes < 1000e<3(k-1)>`, that is bytes < 1000^k
LessThan(v, k) == Len(v.int) <= k

\* `bytes / 1e<3k>`: the decimal point moves k groups to the left
Scaled(v, k) ==
    LET n == Len(v.int)
        padded == [j \in 1..(IF n < k THEN k - n ELSE 0) |-> 0] \o v.int
        m == Len(padded)
    IN  [int |-> SubSeq(padded, 1, m - k),
         frac |-> SubSeq(padded, m - k + 1, m) \o v.frac]

AllZero(q) == \A j \in 1..Len(q) : q[j] = 0

\* how the digits after the second fractional one compare with one half
Beyond(v) ==
    LET d == v.frac[1] % 10
        tail == SubSeq(v.frac, 2, Len(v.frac))
    IN  IF d > 5 \/ (d = 5 /\ ~AllZero(tail)) THEN "above"
        ELSE IF d = 5 THEN "half" ELSE "below"

\* the integer groups plus one
RECURSIVE Increment(_)
Increment(g) ==
    IF g = <<>> THEN <<1>>
    ELSE IF g[Len(g)] < 999 THEN [g EXCEPT ![Len(g)] = @ + 1]
    ELSE Increment(SubSeq(g, 1, Len(g) - 1)) \o <<0>>

\* `{:.2}`: two fractional digits, rounded to nearest; `up` decides a value that
\* lies halfway in this decimal writing (the f64 itself lies on one side of it)
Fixed2(v, up) ==
    LET c == v.frac[1] \div 10
        roundUp == Beyond(v) = "above" \/ (Beyond(v) = "half" /\ up)
    IN  IF ~roundUp THEN [whole |-> v.int, cents |-> c]
        ELSE IF c < 99 THEN [whole |-> v.int, cents |-> c + 1]
        ELSE [whole |-> Increment(v.int), cents |-> 0]

Rendered(v, k, unit, up) ==
    LET r == Fixed2(Scaled(v, k), up)
    IN  [unit |-> unit, whole |-> r.whole, cents |-> r.cents]

\* a formatter whose MB and GB branches carry each other's unit
DisplaySwapped(v, up) ==
    IF LessThan(v, 1) THEN Rendered(v, 0, "bytes", up)
    ELSE IF LessThan(v, 2) THEN Rendered(v, 1, "KB", up)
    ELSE IF LessThan(v, 3) THEN Rendered(v, 2, "GB", up)
    ELSE IF LessThan(v, 4) THEN Rendered(v, 3, "MB", up)
    ELSE IF LessThan(v, 5) THEN Rendered(v, 4, "TB", up)
    ELSE Rendered(v, 0, "bytes", up)

\* impl Display for Bytes
Display(v, up) ==
    IF LessThan(v, 1) THEN Rendered(v, 0, "bytes", up)
    ELSE IF LessThan(v, 2) THEN Rendered(v, 1, "KB", up)
    ELSE IF LessThan(v, 3) THEN Rendered(v, 2, "MB", up)
    ELSE IF LessThan(v, 4) THEN Rendered(v, 3, "GB", up)
    ELSE IF LessThan(v, 5) THEN Rendered(v, 4, "TB", up)
    ELSE Rendered(v, 0, "bytes", up)

IdleRun ==
    /\ args = [command |-> "Memcpy", size |-> 0, threads |-> 0,
               repetitions |-> 0, warmups |-> 0]
    /\ params = [size |-> 0, threads |-> 0, repetitions |-> 0, warmups |-> 0]
    /\ pc = "main"
    /\ i = 0
    /\ start = 0 /\ end = 0 /\ t_coord = 0
    /\ latch = -1 /\ arrivals = 0
    /\ rest = <<>> /\ workers = <<>> /\ joined = 0
    /\ src = <<>> /\ dst = <<>> /\ buf = <<>>
    /\ now = 1 /\ t_begin = 0
    /\ emitted = <<>>

FmtInit ==
    /\ IdleRun
    /\ \E n \in 0..MaxGroups : bytes \in FmtInputs(n)
    /\ out = NotRendered

\* Bytes(v).to_string()
Fmt ==
    /\ out = NotRendered
    /\ \E up \in BOOLEAN : out' = Display(bytes, up)
    /\ UNCHANGED <<bytes>>
    /\ UNCHANGED runvars

FmtNext == Fmt

FmtSpec == FmtInit /\ [][FmtNext]_vars

\* ------------------------------------------------------------------ claims
N == params.threads + 1

MultiThreaded == params.threads > 1

\* the spawn loop of the current trial has finished
SpawnDone == pc \in {"wait", "join", "report"}

WorkerIds == 1..Len(workers)

\* C1: in a multi-threaded trial nobody passes the rendezvous early: a worker that
\* has recorded its t_start or touched its chunk, and a coordinator that has recorded
\* t_coord, imply that count_down was called N = threads + 1 times on the latch.
C1_NoEarlyPass ==
    /\ \A w \in WorkerIds :
          (workers[w].pc \in {"op", "returned"} \/ workers[w].tstart # 0)
              => arrivals = N
    /\ (MultiThreaded /\ (pc \in {"join", "report"} \/ t_coord # 0)) => arrivals = N

C1_Witness ==
    /\ params.threads = 2 /\ pc = "join" /\ t_coord # 0 /\ arrivals = 3
    /\ \E w \in WorkerIds : workers[w].pc = "op" /\ workers[w].tstart # 0
    /\ \E w \in WorkerIds : workers[w].pc = "wait"

\* C2: with size > 0 and threads >= 1 no trial blocks forever: the run can always
\* take a step until it is done, and it is done after warmups + repetitions trials.
C2_EveryTrialCompletes ==
    (args.size > 0 /\ args.threads >= 1) =>
        /\ pc = "done" \/ ENABLED Next
        /\ pc = "done" => i = args.warmups + args.repetitions

\* C3: the partitioning step of a multi-threaded trial hands out exactly `threads`
\* chunks, so exactly `threads` workers are spawned.
C3_ExactlyThreadsWorkers ==
    (MultiThreaded /\ (SpawnDone \/ pc = "panicked")) => Len(workers) = params.threads

\* the chunks of `ws`, in spawn order, are contiguous from offset 0
Contiguous(ws, f(_)) ==
    \A k \in 1..Len(ws) :
        f(ws[k]).off = (IF k = 1 THEN 0 ELSE f(ws[k - 1]).off + f(ws[k - 1]).len)

EndOf(ws, f(_)) == IF ws = <<>> THEN 0 ELSE f(ws[Len(ws)]).off + f(ws[Len(ws)]).len

DstOf(t) == t.dst
SrcOf(t) == t.src

\* C4: the chunks handed to the workers of one trial tile the buffer: the first
\* starts at 0, each next one starts where the previous ends, the last ends at size.
C4_ChunksTileBuffer ==
    MultiThreaded =>
        /\ Contiguous(workers, DstOf)
        /\ args.command = "Memcpy" => Contiguous(workers, SrcOf)
        /\ (SpawnDone \/ pc = "panicked") =>
              /\ EndOf(workers, DstOf) = params.size
              /\ args.command = "Memcpy" => EndOf(workers, SrcOf) = params.size

C4_Witness ==
    /\ pc = "wait" /\ params.threads = 2 /\ params.size = 3
    /\ Len(workers) = 2
    /\ workers[1].dst = [off |-> 0, len |-> 2]
    /\ workers[2].dst = [off |-> 2, len |-> 1]

\* ceil(sz / n), stated without the division
IsCeil(c, sz, n) == c * n >= sz /\ (c - 1) * n < sz

\* C5: no chunk is longer than ceil(size/threads), and every chunk but the last
\* one has exactly that length.
C5_ChunkLengths ==
    MultiThreaded =>
        \A k \in WorkerIds : \A c \in 0..params.size :
            IsCeil(c, params.size, params.threads) =>
                /\ workers[k].dst.len <= c
                /\ (k < Len(workers) \/ rest # <<>>) => workers[k].dst.len = c

C5_Witness ==
    /\ SpawnDone /\ params.threads = 2 /\ params.size = 3
    /\ Len(workers) = 2 /\ workers[1].dst.len = 2 /\ workers[2].dst.len = 1

\* C6: trials run in index order, trial k is reported iff k >= warmups, and a
\* finished run has reported exactly `repetitions` values.
C6_WarmupExclusion ==
    /\ \A k \in 0..(args.warmups + args.repetitions) :
          (\E e \in 1..Len(emitted) : emitted[e] = k) <=> (k < i /\ k >= args.warmups)
    /\ \A e \in 1..Len(emitted) : e > 1 => emitted[e - 1] < emitted[e]
    /\ pc = "done" => (i = args.warmups + args.repetitions
                        /\ Len(emitted) = args.repetitions)

C6_Witness ==
    /\ pc = "done" /\ args.warmups = 3 /\ args.repetitions = 2 /\ args.threads = 2
    /\ i = 5 /\ emitted = <<3, 4>>

MinStart == CHOOSE t \in {t_coord} \cup {workers[w].tstart : w \in WorkerIds} :
                \A u \in {t_coord} \cup {workers[w].tstart : w \in WorkerIds} : t <= u

MaxEnd == CHOOSE t \in {workers[w].tend : w \in WorkerIds} :
                \A u \in {workers[w].tend : w \in WorkerIds} : t >= u

\* `let dur = end - start`
Dur == end - start

\* C7: in every multi-threaded trial of either operation the elapsed time is
\* max over workers of t_end minus min of {t_coord} and all workers' t_start.
C7_ElapsedMaxEndMinusMinStart ==
    (MultiThreaded /\ pc = "report" /\ workers # <<>>) => Dur = MaxEnd - MinStart

\* C8: a completed trial leaves the same bytes whatever the thread count: the
\* destination equals the source after a copy, every byte is 0xFE after a fill.
C8_SameContents ==
    (pc = "report" \/ i > 0) =>
        /\ args.command = "Memcpy" =>
              /\ dst = src
              /\ dst = Resize(args.size, SRC_INIT)
        /\ args.command = "Memset" => buf = Resize(args.size, FILL)

C8_Witness ==
    /\ pc = "report" /\ i = 0 /\ args.command = "Memcpy"
    /\ params.threads = 2 /\ params.size = 3 /\ Len(workers) = 2
    /\ dst = <<SRC_INIT, SRC_INIT, SRC_INIT>>

RECURSIVE Value(_)
Value(g) == IF g = <<>> THEN 0 ELSE Value(SubSeq(g, 1, Len(g) - 1)) * 1000 + g[Len(g)]

\* the unit of the k-th decimal-thousand range
UnitName(k) == <<"bytes", "KB", "MB", "GB", "TB">>[k + 1]

\* C10: a value v below 10^15 is rendered in the unit of its decimal-thousand
\* range (bytes, KB, MB, GB, TB), scaled by that unit and rounded to two fractional
\* digits; the three documented values render as "13.98 GB", "512.00 bytes" and
\* "2.50 MB".
C10_UnitAndScale ==
    (out # NotRendered /\ Len(bytes.int) <= 5) =>
        LET n == Len(bytes.int)
            k == IF n = 0 THEN 0 ELSE n - 1
            digits == bytes.int \o bytes.frac
            \* v / 1000^k in millionths, rounded down, and whether that rounding cut
            millionths == Value(SubSeq(digits, 1, n - k + 2))
            cut == ~AllZero(SubSeq(digits, n - k + 3, Len(digits)))
            shown == (Value(out.whole) * 100 + out.cents) * 10000
        IN  /\ out.unit = UnitName(k)
            /\ out.cents \in 0..99
            /\ shown - 5000 <= millionths
            /\ millionths < shown + 5000 \/ (millionths = shown + 5000 /\ ~cut)
            /\ bytes = [int |-> <<13, 980, 987, 619>>, frac |-> <<602, 848>>]
                  => out = [unit |-> "GB", whole |-> <<13>>, cents |-> 98]
            /\ bytes = [int |-> <<512>>, frac |-> <<0, 0>>]
                  => out = [unit |-> "bytes", whole |-> <<512>>, cents |-> 0]
            /\ bytes = [int |-> <<2, 500, 0>>, frac |-> <<0, 0>>]
                  => out = [unit |-> "MB", whole |-> <<2>>, cents |-> 50]

C10_Witness ==
    /\ bytes = [int |-> <<13, 980, 987, 619>>, frac |-> <<602, 848>>]
    /\ out = [unit |-> "GB", whole |-> <<13>>, cents |-> 98]

\* workers that have made their count_down call
Counted == {w \in WorkerIds : workers[w].pc # "count_down"}

\* C11: a worker goes count_down, wait, t_start, operation, t_end, return in this
\* order (it is counted by the latch before it waits, the latch is open before
\* it reads t_start, t_start is read before the operation and t_end after it),
\* and the coordinator reaches the point where it computes and prints the
\* trial's result only with every worker of the trial joined and returned; no
\* worker exists when the next iteration of the loop begins.
C11_WorkerOrderAndJoin ==
    /\ \A w \in WorkerIds :
         LET t == workers[w]
         IN  /\ t.pc \in {"count_down", "wait", "op", "returned"}
             /\ (t.tstart # 0) <=> t.pc \in {"op", "returned"}
             /\ (t.tend # 0) <=> t.pc = "returned"
             /\ t.pc \in {"op", "returned"} => latch = 0
             /\ t.pc = "returned" => t.tstart < t.tend
             /\ (i = 0 /\ args.command = "Memcpy") =>
                    \A k \in (t.dst.off + 1)..(t.dst.off + t.dst.len) :
                        dst[k] = IF t.pc = "returned" THEN SRC_INIT ELSE DST_INIT
             /\ (i = 0 /\ args.command = "Memset") =>
                    \A k \in (t.dst.off + 1)..(t.dst.off + t.dst.len) :
                        buf[k] = IF t.pc = "returned" THEN FILL ELSE SRC_INIT
    /\ arrivals = Cardinality(Counted) + (IF MultiThreaded /\ SpawnDone THEN 1 ELSE 0)
    /\ joined <= Len(workers)
    /\ \A w \in 1..joined : workers[w].pc = "returned"
    /\ (MultiThreaded /\ pc = "report") =>
          /\ joined = Len(workers)
          /\ \A w \in WorkerIds : workers[w].pc = "returned"
    /\ pc \in {"main", "for", "single", "scope", "done"} => workers = <<>>
    /\ \A k \in 1..Len(emitted) : emitted[k] < i

\* a two-worker trial about to print its result, both workers joined
C11_Witness ==
    /\ pc = "report" /\ Len(workers) = 2 /\ joined = 2
    /\ \A w \in WorkerIds : workers[w].pc = "returned" /\ workers[w].tstart < workers[w].tend
    /\ Reported(i, params.warmups)

\* byte k (1-based) lies in chunk c
InChunk(k, c) == c.off < k /\ k <= c.off + c.len

\* the step is worker w performing its bulk operation
Operates(w) == workers[w].pc = "op" /\ workers'[w].pc = "returned"

\* byte k of the written buffer changes in the step
Changed(k) == IF args.command = "Memcpy" THEN dst'[k] # dst[k] ELSE buf'[k] # buf[k]

\* C12: in every step of a multi-threaded trial the source buffer is left
\* alone, the chunks of two different workers share no byte, and a byte of the
\* written buffer changes only in a step where a worker performs its operation,
\* the byte lying in that worker's chunk and in no other worker's chunk.
C12_WritesStayInOwnChunk ==
    [][(MultiThreaded /\ pc # "main") =>
          /\ src' = src
          /\ \A v, w \in WorkerIds :
                v # w => \A k \in 1..params.size :
                           ~(InChunk(k, workers[v].dst) /\ InChunk(k, workers[w].dst))
          /\ \A k \in 1..params.size :
                Changed(k) =>
                   \E w \in WorkerIds :
                      /\ Operates(w)
                      /\ InChunk(k, workers[w].dst)
                      /\ \A v \in WorkerIds \ {w} : ~InChunk(k, workers[v].dst)]_vars

\* the second worker of a first copy trial has written its chunk while the
\* first worker's chunk still holds the destination's initial bytes
C12_Witness ==
    /\ args.command = "Memcpy" /\ i = 0 /\ Len(workers) = 2
    /\ workers[1].pc = "op" /\ workers[2].pc = "returned"
    /\ \A k \in 1..params.size :
          dst[k] = IF InChunk(k, workers[2].dst) THEN SRC_INIT ELSE DST_INIT
    /\ \A k \in 1..params.size : src[k] = SRC_INIT

\* C13: a trial with threads <= 1 (0 included) never has a latch or a worker;
\* when its result is computed, start and end are two consecutive readings of
\* the clock taken by the coordinator around the operation (start the first
\* instant of the iteration, end the next one), the whole buffer has been
\* written, and the elapsed time is end - start.
C13_SingleThreadedTrial ==
    (pc # "main" /\ params.threads <= 1) =>
        /\ latch = -1 /\ arrivals = 0 /\ workers = <<>> /\ rest = <<>>
        /\ pc \in {"for", "single", "report", "done"}
        /\ pc = "single" => start = now - 1 /\ end = 0
        /\ pc = "report" =>
              /\ t_coord = 0
              /\ start = t_begin /\ end = start + 1 /\ now = end + 1
              /\ Dur = 1
              /\ \A k \in 1..params.size :
                    IF args.command = "Memcpy" THEN dst[k] = src[k] ELSE buf[k] = FILL

\* a trial with threads = 0 on a non-empty buffer about to print its result
C13_Witness ==
    /\ pc = "report" /\ params.threads = 0 /\ params.size > 0
    /\ latch = -1 /\ workers = <<>> /\ end = start + 1
    /\ Reported(i, params.warmups)

MaxStart == CHOOSE t \in {t_coord} \cup {workers[w].tstart : w \in WorkerIds} :
                \A u \in {t_coord} \cup {workers[w].tstart : w \in WorkerIds} : u <= t

\* C14: once the coordinator has joined every worker of a multi-threaded
\* trial, the reference start of a copy trial is the minimum of t_coord and
\* all workers' t_start, and that of a fill trial is their maximum.
C14_StartAggregation ==
    (MultiThreaded /\ pc \in {"join", "report"} /\ joined = Len(workers)) =>
        /\ args.command = "Memcpy" => start = MinStart
        /\ args.command = "Memset" => start = MaxStart

\* a fill trial at the report whose reference start is the maximum and not
\* the minimum of the instants
C14_Witness ==
    /\ pc = "report" /\ args.command = "Memset" /\ Len(workers) = 2
    /\ start = MaxStart /\ MinStart < MaxStart

\* clock readings made so far in the current iteration of the loop
Readings == now - t_begin

\* C15: the latch of a multi-threaded trial is constructed in that trial with
\* count threads + 1 and only counted down from there (count + arrivals stays
\* threads + 1, so it opens once and is never re-armed, and a trial that
\* reaches its report has seen exactly threads + 1 arrivals); no latch and no
\* arrival is left at the head of an iteration; and the start and end used for the
\* elapsed time, like every worker's timestamps, are instants read in the
\* current iteration: not before its first reading and before the clock's
\* present value.
C15_FreshLatchAndInstants ==
    /\ pc \in {"for", "single", "scope", "done"} => latch = -1 /\ arrivals = 0
    /\ (MultiThreaded /\ pc \in {"spawn", "wait", "join", "report", "panicked"}) =>
          /\ latch >= 0
          /\ latch + arrivals = N
          /\ pc = "report" => latch = 0 /\ arrivals = N
    /\ pc \in {"single", "scope", "spawn", "wait", "join", "report"} =>
          /\ t_begin > 0 /\ t_begin < now
    /\ pc = "report" =>
          /\ t_begin <= start /\ start < now
          /\ t_begin <= end /\ end < now
          /\ \A w \in WorkerIds :
                /\ t_begin < workers[w].tstart
                /\ workers[w].tend < now

\* the second trial of a two-thread run at its report: its instants are later
\* than everything the first trial read
C15_Witness ==
    /\ pc = "report" /\ i = 1 /\ Len(workers) = 2
    /\ latch = 0 /\ arrivals = N
    /\ t_begin > 1 /\ start >= t_begin /\ end >= t_begin

\* C16: in a multi-threaded trial on a non-empty buffer the chunks handed
\* out, spawned or still to be spawned, number at most `threads`, so the
\* count_down calls made on the trial's latch never exceed threads + 1 and none
\* of them finds the count already at 0; the count the latch was constructed
\* with is not 0.
C16_CountDownsWithinCount ==
    (MultiThreaded /\ params.size > 0 /\ pc # "main") =>
        /\ Len(workers) + Len(rest) <= params.threads
        /\ arrivals <= N
        /\ latch # -1 => latch + arrivals = N /\ latch + arrivals > 0

\* a trial in which every one of the threads + 1 count_down calls has been made
C16_Witness ==
    /\ MultiThreaded /\ params.size > 0
    /\ Len(workers) = params.threads
    /\ arrivals = N /\ latch = 0

\* C17: whenever a trial, copy or fill, single- or multi-threaded, reaches
\* the point where its throughput is computed, both instants are assigned and
\* the end instant is not earlier than the start instant, so the elapsed
\* duration is not negative.
C17_EndNotBeforeStart ==
    pc = "report" => start > 0 /\ end >= start /\ Dur >= 0

\* a copy trial whose coordinator woke after both workers had returned: its end
\* is the coordinator's own instant and the elapsed time is still positive
C17_Witness ==
    /\ pc = "report" /\ args.command = "Memcpy" /\ Len(workers) = 2
    /\ \A w \in WorkerIds : workers[w].tend < t_coord
    /\ end = t_coord /\ start < end

\* C18: in a multi-threaded copy trial on a non-empty buffer every pair of
\* the zipped iterators, spawned or still to be spawned, has a source chunk and
\* a destination chunk of the same offset and the same length, and no worker
\* panics in its copy.
C18_SameOffsetAndLength ==
    (MultiThreaded /\ params.size > 0 /\ args.command = "Memcpy") =>
        /\ \A w \in WorkerIds :
              /\ workers[w].src.off = workers[w].dst.off
              /\ workers[w].src.len = workers[w].dst.len
              /\ workers[w].pc # "panicked"
        /\ \A k \in 1..Len(rest) :
              /\ rest[k].src.off = rest[k].dst.off
              /\ rest[k].src.len = rest[k].dst.len

\* two workers of a copy trial whose chunks differ in length (full chunk and
\* remainder), both having copied
C18_Witness ==
    /\ args.command = "Memcpy" /\ Len(workers) = 2
    /\ workers[1].dst.len > workers[2].dst.len /\ workers[2].dst.len > 0
    /\ \A w \in WorkerIds : workers[w].pc = "returned" /\ workers[w].src = workers[w].dst

\* C19: in every multi-threaded trial, an empty buffer included, the chunk
\* size computed as ceil(size / num_threads) satisfies
\* chunk_size * num_threads >= size, so the assertion never fails: a trial that
\* has entered the scope is past the assertion unless it panicked, and the only
\* panic there is the one of the partitioning with chunk size 0.
C19_AssertionHolds ==
    (MultiThreaded /\ pc # "main") =>
        /\ DebugAssert(DivCeil(params.size, params.threads), params.threads, params.size)
        /\ pc = "panicked" => params.size = 0

\* a trial past the assertion on a size that is not a multiple of num_threads
C19_Witness ==
    /\ MultiThreaded /\ pc = "spawn" /\ latch = N
    /\ params.size % params.threads # 0
    /\ params.size > params.threads
====
